---- MODULE Spec2Model ----
(***************************************************************************)
(* chore-score: users, chores and completion records behind a REST API.    *)
(* The state is the content of the three tables (users, chores,            *)
(* completions), their id sequences and the wall clock; every action is    *)
(* one request handler of backend/app/routers, run to completion.          *)
(* `last' records the handler of the most recent request and its answer.   *)
(* `inflight' holds the requests that run side by side in the threadpool,  *)
(* each between its checks and its commit; a handler run to completion     *)
(* leaves it alone.                                                        *)
(***************************************************************************)
EXTENDS Integers, FiniteSets, Sequences, TLC

VARIABLES users, chores, completions,
          nextUserId, nextChoreId, nextCompletionId,
          now, last, inflight

vars == <<users, chores, completions,
          nextUserId, nextChoreId, nextCompletionId, now, last, inflight>>

(***************************************************************************)
(* Bounds of the model and the input alphabets of the requests.            *)
(***************************************************************************)
MaxUserId == 2
MaxChoreId == 2
MaxCompletionId == 2
\* A day is a number of days since a Monday; a timestamp is a number of
\* clock ticks, TicksPerDay of them in a calendar day.  The clock starts on
\* StartDay, a Sunday, and runs to the end of MaxDay, the Monday after.
TicksPerDay == 1
StartDay == 6
MaxDay == StartDay + 1
\* the dates given to the week helpers on their own: 0..MaxDate
MaxDate == 20
\* the stores the statistics are asked of: up to MaxStatChores chores and
\* MaxStatCompletions completions
MaxStatChores == 4
MaxStatCompletions == 3

\* NULL of an optional integer column or request field
None == 0 - 1
\* NULL of users.email
NoEmail == "none"
\* a frequency filter that is absent (or empty: "if frequency:")
NoFrequency == ""

UserNames == {"Ann", "ann"}
Emails == {"a@x.org"}
ChoreNames == {"Dishes"}
Frequencies == {"daily", "weekly", "twice_weekly", "monthly"}

\* str.lower() on the names of the model
Lower(s) ==
    CASE s = "Ann" -> "ann"
      [] s = "Dishes" -> "dishes"
      [] s = "Car" -> "car"
      [] OTHER -> s

\* the place of a name of the model in the order of Python's str (by code
\* point: upper case before lower case)
StrKey(s) ==
    CASE s = "Ann" -> 1
      [] s = "Car" -> 2
      [] s = "Dishes" -> 3
      [] s = "ann" -> 4
      [] s = "bins" -> 5
      [] s = "car" -> 6
      [] s = "dishes" -> 7
      [] OTHER -> 8

(***************************************************************************)
(* HTTP status of an answer.  The handlers raise HTTPException with a      *)
(* status code and a detail text; the answer kinds name the detail.        *)
(***************************************************************************)
StatusCode(res) ==
    CASE res = "Created" -> 201
      [] res = "OK" -> 200
      [] res = "NoContent" -> 204
      [] res = "NotFound" -> 404
      [] res = "ServerError" -> 500
      [] OTHER -> 400

(***************************************************************************)
(* Dates                                                                   *)
(***************************************************************************)
\* func.date(completed_at), datetime.date()
DateOf(ts) == ts \div TicksPerDay

\* date.weekday(): 0 = Monday .. 6 = Sunday
Weekday(d) == d % 7

\* get_week_start for a week that starts on Sunday
get_week_startSunday(target_date) ==
    target_date - ((Weekday(target_date) + 1) % 7)

get_week_start(target_date) == target_date - Weekday(target_date)

Today == DateOf(now)

get_current_week_start == get_week_start(Today)

is_same_week(date1, date2) == get_week_start(date1) = get_week_start(date2)

(***************************************************************************)
(* Users                                                                   *)
(***************************************************************************)
UserIds == {u.id : u \in users}

\* NameTaken with a comparison that ignores letter case
NameTakenNoCase(name) == \E u \in users : Lower(u.name) = Lower(name)

\* db.query(User).filter(User.name == name).first() is not None
NameTaken(name) == \E u \in users : u.name = name

\* EmailTaken with the query left out
EmailTakenNever(email) == FALSE

\* db.query(User).filter(User.email == email).first() is not None
EmailTaken(email) == \E u \in users : u.email = email

create_user_result(name, email) ==
    IF NameTaken(name) THEN "Conflict"
    ELSE IF email # NoEmail /\ EmailTaken(email) THEN "Conflict"
    ELSE "Created"

\* db.query(User).filter(User.is_admin == True).count()
admin_count == Cardinality({u \in users : u.is_admin})

\* LastAdmin with the comparison off by one
LastAdminNone(u) == u.is_admin /\ admin_count < 1

\* the guard of delete_user against removing the last admin
LastAdmin(u) == u.is_admin /\ admin_count <= 1

delete_user_result(user_id) ==
    IF user_id \notin UserIds THEN "NotFound"
    ELSE LET db_user == CHOOSE u \in users : u.id = user_id IN
         IF LastAdmin(db_user) THEN "InvariantViolation"
         ELSE "NoContent"

\* cascade="all, delete-orphan" of User.chores and of Chore.completions
CascadeChores(user_id) == {c \in chores : c.assigned_user_id = user_id}

\* CascadeCompletions without the completions of the chores of the user
CascadeCompletionsOwn(user_id) == {c \in completions : c.user_id = user_id}

\* cascade="all, delete-orphan" of User.completions, together with the
\* completions of the chores that go with the user
CascadeCompletions(user_id) ==
    {c \in completions :
        \/ c.user_id = user_id
        \/ c.chore_id \in {ch.id : ch \in CascadeChores(user_id)}}

\* a field of a partial update: None/"unset" leave the column alone
Patch(old, new, unset) == IF new = unset THEN old ELSE new

\* update_user_result that takes the user's own name for a name in use
update_user_resultOwn(user_id, name, email) ==
    IF user_id \notin UserIds THEN "NotFound"
    ELSE LET db_user == CHOOSE u \in users : u.id = user_id IN
         IF name # "unset" /\ NameTaken(name)
            THEN "Conflict"
         ELSE IF /\ email \notin {"unset", NoEmail}
                 /\ email # db_user.email
                 /\ EmailTaken(email)
            THEN "Conflict"
         ELSE "OK"

\* name and email of the request: "unset", or the new value (NoEmail is an
\* explicit null, which "if user.email" skips as it skips an absent field)
update_user_result(user_id, name, email) ==
    IF user_id \notin UserIds THEN "NotFound"
    ELSE LET db_user == CHOOSE u \in users : u.id = user_id IN
         IF name # "unset" /\ name # db_user.name /\ NameTaken(name)
            THEN "Conflict"
         ELSE IF /\ email \notin {"unset", NoEmail}
                 /\ email # db_user.email
                 /\ EmailTaken(email)
            THEN "Conflict"
         ELSE "OK"

(***************************************************************************)
(* Request handlers of routers/users.py                                    *)
(***************************************************************************)
create_user(name, email, is_admin, is_active) ==
    LET res == create_user_result(name, email) IN
    /\ res = "Created" => nextUserId <= MaxUserId
    /\ IF res = "Created"
          THEN /\ users' = users \cup
                    {[id |-> nextUserId, name |-> name, email |-> email,
                      is_admin |-> is_admin, is_active |-> is_active]}
               /\ nextUserId' = nextUserId + 1
          ELSE UNCHANGED <<users, nextUserId>>
    /\ last' = [op |-> "create_user", res |-> res]
    /\ UNCHANGED <<chores, completions, nextChoreId, nextCompletionId,
                   now, inflight>>

\* is_admin / is_active of the request: "unset", "true" or "false";
\* `last' keeps whether the request names the user's own current name
update_user(user_id, name, email, is_admin, is_active) ==
    LET res == update_user_result(user_id, name, email) IN
    /\ IF res = "OK"
          THEN LET db_user == CHOOSE u \in users : u.id = user_id
                   upd == [id |-> db_user.id,
                           name |-> Patch(db_user.name, name, "unset"),
                           email |-> Patch(db_user.email, email, "unset"),
                           is_admin |-> IF is_admin = "unset"
                                        THEN db_user.is_admin
                                        ELSE is_admin = "true",
                           is_active |-> IF is_active = "unset"
                                         THEN db_user.is_active
                                         ELSE is_active = "true"]
               IN users' = (users \ {db_user}) \cup {upd}
          ELSE UNCHANGED users
    /\ last' = [op |-> "update_user", res |-> res,
                own_name |-> \E u \in users : u.id = user_id /\ u.name = name]
    /\ UNCHANGED <<chores, completions, nextUserId, nextChoreId,
                   nextCompletionId, now, inflight>>

\* `last' keeps the admin flag of the user the request names
delete_user(user_id) ==
    LET res == delete_user_result(user_id) IN
    /\ IF res = "NoContent"
          THEN /\ users' = {u \in users : u.id # user_id}
               /\ chores' = chores \ CascadeChores(user_id)
               /\ completions' = completions \ CascadeCompletions(user_id)
          ELSE UNCHANGED <<users, chores, completions>>
    /\ last' = [op |-> "delete_user", res |-> res,
                is_admin |-> \E u \in users : u.id = user_id /\ u.is_admin]
    /\ UNCHANGED <<nextUserId, nextChoreId, nextCompletionId, now, inflight>>

(***************************************************************************)
(* Chores                                                                  *)
(***************************************************************************)
ChoreIds == {c.id : c \in chores}

ChoreOf(chore_id) == CHOOSE c \in chores : c.id = chore_id

\* ChoreCompletions without the cascade
ChoreCompletionsNone(chore_id) == {}

\* cascade="all, delete-orphan" of Chore.completions
ChoreCompletions(chore_id) == {c \in completions : c.chore_id = chore_id}

\* "if chore.assigned_user_id:" followed by the lookup of the user
UnknownAssignee(assigned_user_id) ==
    assigned_user_id # None /\ assigned_user_id \notin UserIds

create_chore_result(assigned_user_id) ==
    IF UnknownAssignee(assigned_user_id) THEN "UnknownUser" ELSE "Created"

update_chore_result(chore_id, assigned_user_id) ==
    IF chore_id \notin ChoreIds THEN "NotFound"
    ELSE IF UnknownAssignee(assigned_user_id) THEN "UnknownUser"
    ELSE "OK"

delete_chore_result(chore_id) ==
    IF chore_id \notin ChoreIds THEN "NotFound" ELSE "NoContent"

(***************************************************************************)
(* Request handlers of routers/chores.py                                   *)
(***************************************************************************)
create_chore(name, frequency, assigned_user_id, is_active, is_adhoc) ==
    LET res == create_chore_result(assigned_user_id) IN
    /\ res = "Created" => nextChoreId <= MaxChoreId
    /\ IF res = "Created"
          THEN /\ chores' = chores \cup
                    {[id |-> nextChoreId, name |-> name,
                      frequency |-> frequency,
                      assigned_user_id |-> assigned_user_id,
                      is_active |-> is_active, is_adhoc |-> is_adhoc]}
               /\ nextChoreId' = nextChoreId + 1
          ELSE UNCHANGED <<chores, nextChoreId>>
    /\ last' = [op |-> "create_chore", res |-> res]
    /\ UNCHANGED <<users, completions, nextUserId, nextCompletionId,
                   now, inflight>>

\* frequency / is_active / is_adhoc of the request: "unset" or the new value
update_chore(chore_id, frequency, assigned_user_id, is_active, is_adhoc) ==
    LET res == update_chore_result(chore_id, assigned_user_id) IN
    /\ IF res = "OK"
          THEN LET db_chore == ChoreOf(chore_id)
                   upd == [id |-> db_chore.id, name |-> db_chore.name,
                           frequency |->
                               Patch(db_chore.frequency, frequency, "unset"),
                           assigned_user_id |->
                               Patch(db_chore.assigned_user_id,
                                     assigned_user_id, None),
                           is_active |-> IF is_active = "unset"
                                         THEN db_chore.is_active
                                         ELSE is_active = "true",
                           is_adhoc |-> IF is_adhoc = "unset"
                                        THEN db_chore.is_adhoc
                                        ELSE is_adhoc = "true"]
               IN chores' = (chores \ {db_chore}) \cup {upd}
          ELSE UNCHANGED chores
    /\ last' = [op |-> "update_chore", res |-> res]
    /\ UNCHANGED <<users, completions, nextUserId, nextChoreId,
                   nextCompletionId, now, inflight>>

delete_chore(chore_id) ==
    LET res == delete_chore_result(chore_id) IN
    /\ IF res = "NoContent"
          THEN /\ chores' = {c \in chores : c.id # chore_id}
               /\ completions' = completions \ ChoreCompletions(chore_id)
          ELSE UNCHANGED <<chores, completions>>
    /\ last' = [op |-> "delete_chore", res |-> res]
    /\ UNCHANGED <<users, nextUserId, nextChoreId, nextCompletionId,
                   now, inflight>>

(***************************************************************************)
(* Completions                                                             *)
(***************************************************************************)
CompletionIds == {c.id : c \in completions}

CompletionOf(completion_id) == CHOOSE c \in completions : c.id = completion_id

\* "if completion.week_start is None: ... = get_current_week_start()"
EffectiveWeekStart(week_start) ==
    IF week_start = None THEN get_current_week_start ELSE week_start

\* InFuture with the comparison off by one day
InFutureLax(completion_date) == completion_date > DateOf(now) + 1

\* "completion_date > now.date()"
InFuture(completion_date) == completion_date > DateOf(now)

\* completion_dt of mark_chore_complete: Completion(...).completed_at is
\* not set before the insert (the column has a server default only), and
\* becomes the current time when the request carries a completion_date
CompletionDt(completion_date) ==
    IF completion_date = None THEN None ELSE now

\* CompletedOn that looks at the chore and the day, whatever the week
CompletedOnAnyWeek(chore_id, week_start, day) ==
    \E c \in completions :
        c.chore_id = chore_id /\ DateOf(c.completed_at) = day

\* the query for an existing completion of the chore, in the week, on the day
CompletedOn(chore_id, week_start, day) ==
    \E c \in completions :
        /\ c.chore_id = chore_id
        /\ c.week_start = week_start
        /\ DateOf(c.completed_at) = day

\* the record the 404 of mark_chore_complete names in its detail
mark_chore_complete_detail(chore_id, user_id) ==
    IF chore_id \notin ChoreIds THEN "Chore"
    ELSE IF user_id \notin UserIds THEN "User"
    ELSE "none"

\* mark_chore_complete_result with the date looked at before the records
mark_chore_complete_resultDateFirst(chore_id, user_id, week_start, completion_date) ==
    IF completion_date # None /\ InFuture(completion_date)
        THEN "InvalidArgument"
    ELSE IF chore_id \notin ChoreIds THEN "NotFound"
    ELSE IF user_id \notin UserIds THEN "NotFound"
    ELSE IF /\ CompletionDt(completion_date) # None
            /\ CompletedOn(chore_id, EffectiveWeekStart(week_start),
                           DateOf(CompletionDt(completion_date)))
        THEN "Conflict"
    ELSE "Created"

mark_chore_complete_result(chore_id, user_id, week_start, completion_date) ==
    IF chore_id \notin ChoreIds THEN "NotFound"
    ELSE IF user_id \notin UserIds THEN "NotFound"
    ELSE IF completion_date # None /\ InFuture(completion_date)
        THEN "InvalidArgument"
    ELSE IF /\ CompletionDt(completion_date) # None
            /\ CompletedOn(chore_id, EffectiveWeekStart(week_start),
                           DateOf(CompletionDt(completion_date)))
        THEN "Conflict"
    ELSE "Created"

\* the row the insert stores: completed_at is the server default, now()
NewCompletion(chore_id, user_id, week_start) ==
    [id |-> nextCompletionId, chore_id |-> chore_id, user_id |-> user_id,
     completed_at |-> now, week_start |-> week_start]

update_completion_result(completion_id, user_id) ==
    IF completion_id \notin CompletionIds THEN "NotFound"
    ELSE IF user_id # None /\ user_id \notin UserIds THEN "NotFound"
    ELSE "OK"

\* delete_completion_result without the lookup of the row
delete_completion_resultAny(completion_id) == "NoContent"

delete_completion_result(completion_id) ==
    IF completion_id \notin CompletionIds THEN "NotFound" ELSE "NoContent"

(***************************************************************************)
(* Request handlers of routers/completions.py                              *)
(***************************************************************************)
\* `last' keeps the completion_date of the request: the row does not
mark_chore_complete(chore_id, user_id, week_start, completion_date) ==
    LET res == mark_chore_complete_result(chore_id, user_id, week_start,
                                          completion_date)
        ws  == EffectiveWeekStart(week_start)
    IN
    /\ res = "Created" => nextCompletionId <= MaxCompletionId
    /\ IF res = "Created"
          THEN /\ completions' = completions \cup
                                 {NewCompletion(chore_id, user_id, ws)}
               /\ nextCompletionId' = nextCompletionId + 1
          ELSE UNCHANGED <<completions, nextCompletionId>>
    /\ last' = [op |-> "mark_chore_complete", res |-> res,
                completion_date |-> completion_date,
                detail |-> mark_chore_complete_detail(chore_id, user_id)]
    /\ UNCHANGED <<users, chores, nextUserId, nextChoreId, now, inflight>>

update_completion(completion_id, user_id, completed_at, week_start) ==
    LET res == update_completion_result(completion_id, user_id) IN
    /\ IF res = "OK"
          THEN LET db_completion == CompletionOf(completion_id)
                   upd == [id |-> db_completion.id,
                           chore_id |-> db_completion.chore_id,
                           user_id |->
                               Patch(db_completion.user_id, user_id, None),
                           completed_at |->
                               Patch(db_completion.completed_at,
                                     completed_at, None),
                           week_start |->
                               Patch(db_completion.week_start,
                                     week_start, None)]
               IN completions' = (completions \ {db_completion}) \cup {upd}
          ELSE UNCHANGED completions
    /\ last' = [op |-> "update_completion", res |-> res]
    /\ UNCHANGED <<users, chores, nextUserId, nextChoreId,
                   nextCompletionId, now, inflight>>

delete_completion(completion_id) ==
    LET res == delete_completion_result(completion_id) IN
    /\ IF res = "NoContent"
          THEN completions' = {c \in completions : c.id # completion_id}
          ELSE UNCHANGED completions
    \* `last' keeps the chore and the week of the row that was looked up
    /\ last' = [op |-> "delete_completion", res |-> res,
                chore_id |-> IF completion_id \in CompletionIds
                             THEN CompletionOf(completion_id).chore_id
                             ELSE None,
                week_start |-> IF completion_id \in CompletionIds
                               THEN CompletionOf(completion_id).week_start
                               ELSE None]
    /\ UNCHANGED <<users, chores, nextUserId, nextChoreId,
                   nextCompletionId, now, inflight>>

(***************************************************************************)
(* create_adhoc_chore of routers/chores.py                                 *)
(***************************************************************************)
\* AdhocNamed with the is_adhoc filter turned round
AdhocNamedRegular(name) == {c \in chores : c.name = name /\ ~c.is_adhoc}

\* the adhoc chores a lookup by exact name can return
AdhocNamed(name) == {c \in chores : c.name = name /\ c.is_adhoc}

NewAdhocChore(name) ==
    [id |-> nextChoreId, name |-> name, frequency |-> "weekly",
     assigned_user_id |-> None, is_active |-> FALSE, is_adhoc |-> TRUE]

create_adhoc_chore_result(chore_id, user_id, week_start, completion_date) ==
    IF user_id \notin UserIds THEN "NotFound"
    ELSE IF InFuture(completion_date) THEN "InvalidArgument"
    ELSE IF CompletedOn(chore_id, week_start, completion_date) THEN "Conflict"
    ELSE "Created"

\* get_db: the session of a request is closed when the request ends; what
\* was flushed but not committed is discarded
get_db_close(committed, flushed) == committed

\* Committed with the commit moved up to the flush
CommittedAtFlush(res) == TRUE

\* db.commit() of create_adhoc_chore is its last statement but two: only a
\* request that raised nothing reaches it
Committed(res) == res = "Created"

create_adhoc_chore(name, user_id, completion_date, week_start) ==
    \* .first() of the lookup: any of the adhoc chores of that name
    \E existing_chore \in
          IF AdhocNamed(name) = {} THEN {None}
          ELSE {c.id : c \in AdhocNamed(name)} :
        LET known    == user_id \in UserIds
            flush    == known /\ existing_chore = None
            chore_id == IF existing_chore = None THEN nextChoreId
                        ELSE existing_chore
            flushed  == IF flush THEN chores \cup {NewAdhocChore(name)}
                        ELSE chores
            res == create_adhoc_chore_result(chore_id, user_id, week_start,
                                             completion_date)
        IN
        /\ flush => nextChoreId <= MaxChoreId
        /\ res = "Created" => nextCompletionId <= MaxCompletionId
        \* the sequence value of a flushed row is spent, committed or not
        /\ nextChoreId' = IF flush THEN nextChoreId + 1 ELSE nextChoreId
        /\ chores' = IF Committed(res) THEN flushed
                      ELSE get_db_close(chores, flushed)
        /\ IF res = "Created"
              THEN /\ completions' = completions \cup
                        {NewCompletion(chore_id, user_id, week_start)}
                   /\ nextCompletionId' = nextCompletionId + 1
              ELSE UNCHANGED <<completions, nextCompletionId>>
        /\ last' = [op |-> "create_adhoc_chore", res |-> res]
        /\ UNCHANGED <<users, nextUserId, now, inflight>>

(***************************************************************************)
(* get_weekly_chores of routers/chores.py                                  *)
(***************************************************************************)
\* the orders in which a query can return the rows of a set
RECURSIVE Orders(_)
Orders(S) ==
    IF S = {} THEN {<<>>}
    ELSE UNION {{<<x>> \o t : t \in Orders(S \ {x})} : x \in S}

\* "<" of Python on tuples of integers of one length
RECURSIVE KeyLess(_, _)
KeyLess(k1, k2) ==
    IF k1 = <<>> THEN FALSE
    ELSE IF Head(k1) # Head(k2) THEN Head(k1) < Head(k2)
    ELSE KeyLess(Tail(k1), Tail(k2))

\* the rows r in the order of a stable sort by the keys k, k[i] the key of
\* r[i]: a row stands behind the rows of a smaller key and behind the rows
\* of its own key that stood before it
StableOrder(r, k) ==
    LET n == Len(r)
        before(i) == {j \in 1..n :
                        \/ KeyLess(k[j], k[i])
                        \/ k[j] = k[i] /\ j < i}
    IN [p \in 1..n |-> r[CHOOSE i \in 1..n : Cardinality(before(i)) = p - 1]]

\* sorted(rows, key=...), keys the keys of the rows; the list and the keys
\* are worked out once, then sorted
SortedBy(rows, keys) ==
    CHOOSE s \in {StableOrder(a[1], a[2]) : a \in {<<rows, keys>>}} : TRUE

frequency_order(frequency) ==
    CASE frequency = "daily" -> 1
      [] frequency = "weekly" -> 2
      [] frequency = "twice_weekly" -> 3
      [] frequency = "monthly" -> 4
      [] OTHER -> 5

\* key=lambda c: (frequency_order.get(c.frequency, 5), c.name.lower())
FrequencyNameKey(c) == <<frequency_order(c.frequency), StrKey(Lower(c.name))>>

\* NameKey on the name as it is stored
NameKeyRaw(c) == <<StrKey(c.name)>>

\* key=lambda c: c.name.lower()
NameKey(c) == <<StrKey(Lower(c.name))>>

SortedByFrequency(rows) ==
    SortedBy(rows, [i \in 1..Len(rows) |-> FrequencyNameKey(rows[i])])

SortedByName(rows) ==
    SortedBy(rows, [i \in 1..Len(rows) |-> NameKey(rows[i])])

\* WeeklyQuery that asks for every chore, active or not
WeeklyQueryAll(user_id, frequency) ==
    {c \in chores :
        /\ user_id \in {None, 0} \/ c.assigned_user_id = user_id
        /\ frequency = NoFrequency \/ c.frequency = frequency}

\* the query of the active chores with the filters of the request;
\* "if user_id:" and "if frequency:" skip a filter that is absent or 0
WeeklyQuery(user_id, frequency) ==
    {c \in chores :
        /\ c.is_active
        /\ user_id \in {None, 0} \/ c.assigned_user_id = user_id
        /\ frequency = NoFrequency \/ c.frequency = frequency}

\* the completions of the week
WeekCompletions(week_start) ==
    {c \in completions : c.week_start = week_start}

\* the adhoc chores the completions of the week name beside the chores listed
WeeklyAdhoc(listed, week_completions) ==
    LET adhoc_chore_ids == {c.chore_id : c \in
                              {x \in week_completions :
                                  x.chore_id \notin {ch.id : ch \in listed}}}
    IN {ch \in chores : ch.id \in adhoc_chore_ids /\ ch.is_adhoc}

\* SumLen that counts a chore once however many completions it has
RECURSIVE SumLenOnce(_)
SumLenOnce(result) ==
    IF result = <<>> THEN 0
    ELSE (IF Head(result).completions = {} THEN 0 ELSE 1)
         + SumLenOnce(Tail(result))

\* sum(len(c["completions"]) for c in result)
RECURSIVE SumLen(_)
SumLen(result) ==
    IF result = <<>> THEN 0
    ELSE Cardinality(Head(result).completions) + SumLen(Tail(result))

\* the entry of a chore; completions: the ids of completion_map.get(chore.id,
\* []), a list without repetition whose order is that of the rows of the
\* completions query, kept as the set of its elements
WeeklyEntry(chore, week_completions) ==
    [id |-> chore.id, name |-> chore.name, frequency |-> chore.frequency,
     assigned_user_id |-> chore.assigned_user_id, is_adhoc |-> chore.is_adhoc,
     completions |-> {c.id : c \in {x \in week_completions :
                                        x.chore_id = chore.id}}]

\* frequency of the request: NoFrequency, or a text (any text: the query
\* parameter is a plain str); `last' keeps the response with the filters of
\* the request
get_weekly_chores(week_start, user_id, frequency) ==
    /\ IF frequency # NoFrequency /\ frequency \notin Frequencies
          THEN last' = [op |-> "get_weekly_chores", res |-> "InvalidArgument"]
          ELSE LET ws == IF week_start = None THEN get_week_start(Today)
                         ELSE week_start
                   active == WeeklyQuery(user_id, frequency)
                   adhoc_chores == WeeklyAdhoc(active, WeekCompletions(ws))
               IN
               \E rows \in Orders(active), adhoc_rows \in Orders(adhoc_chores) :
               \E listed \in {SortedByName(SortedByFrequency(rows)
                                           \o adhoc_rows)} :
                  LET result == [i \in 1..Len(listed) |->
                                    WeeklyEntry(listed[i], WeekCompletions(ws))]
                  IN last' = [op |-> "get_weekly_chores", res |-> "OK",
                              user_id |-> user_id, frequency |-> frequency,
                              week_start |-> ws,
                              total_chores |-> Len(result),
                              completed_chores |-> SumLen(result),
                              chores |-> result]
    /\ UNCHANGED <<users, chores, completions,
                   nextUserId, nextChoreId, nextCompletionId, now, inflight>>

(***************************************************************************)
(* Statistics: get_completion_stats of routers/completions.py and          *)
(* get_dashboard_stats of routers/admin.py.  A rate is kept as a number of  *)
(* hundredths of a percent: 2500 is 25.0.                                  *)
(***************************************************************************)
\* the integer nearest to n / d, the even one of two that are as near
RoundHalfEven(n, d) ==
    LET q == n \div d
        r == n % d
    IN IF 2 * r < d THEN q
       ELSE IF 2 * r > d THEN q + 1
       ELSE IF q % 2 = 0 THEN q
       ELSE q + 1

\* "completion_rate = 0.0; if total_active_chores > 0: completion_rate =
\* (completions_this_week / total_active_chores) * 100", and round(.., 2)
completion_rate(completions_this_week, total_active_chores) ==
    IF total_active_chores > 0
        THEN RoundHalfEven(completions_this_week * 10000, total_active_chores)
        ELSE 0

\* query.filter(Completion.user_id == user_id) when a user_id is given
StatsCompletions(user_id) ==
    {c \in completions : user_id = None \/ c.user_id = user_id}

\* StatsActiveChores that counts every chore, active or not
StatsActiveChoresAll(user_id) ==
    {c \in chores : user_id = None \/ c.assigned_user_id = user_id}

\* the active chores, those assigned to the user when a user_id is given
StatsActiveChores(user_id) ==
    {c \in chores :
        c.is_active /\ (user_id = None \/ c.assigned_user_id = user_id)}

get_completion_stats(user_id) ==
    LET current_week == get_current_week_start
        total_completions == Cardinality(StatsCompletions(user_id))
        completions_this_week ==
            Cardinality({c \in StatsCompletions(user_id) :
                            c.week_start = current_week})
        total_active_chores == Cardinality(StatsActiveChores(user_id))
    IN
    /\ last' = [op |-> "get_completion_stats", res |-> "OK",
                user_id |-> user_id,
                total_completions |-> total_completions,
                completions_this_week |-> completions_this_week,
                total_active_chores |-> total_active_chores,
                completion_rate |-> completion_rate(completions_this_week,
                                                    total_active_chores)]
    /\ UNCHANGED <<users, chores, completions,
                   nextUserId, nextChoreId, nextCompletionId, now, inflight>>

get_dashboard_stats ==
    LET current_week == get_current_week_start
        active_chores == Cardinality(StatsActiveChores(None))
        completions_this_week ==
            Cardinality({c \in completions : c.week_start = current_week})
        completions_last_week ==
            Cardinality({c \in completions :
                            c.week_start = current_week - 7})
    IN
    /\ last' = [op |-> "get_dashboard_stats", res |-> "OK",
                user_id |-> None,
                total_completions |-> Cardinality(completions),
                active_chores |-> active_chores,
                this_week |-> completions_this_week,
                last_week |-> completions_last_week,
                completion_rate |-> completion_rate(completions_this_week,
                                                    active_chores)]
    /\ UNCHANGED <<users, chores, completions,
                   nextUserId, nextChoreId, nextCompletionId, now, inflight>>

(***************************************************************************)
(* Requests side by side.  A handler is a function run in a thread of the  *)
(* pool; its queries see what is committed when they run, and another      *)
(* request may commit between its last query and its own commit.           *)
(***************************************************************************)
Workers == {1, 2}

Idle == [pc |-> "idle"]

\* mark_chore_complete up to its last query
mark_chore_complete_check(w, chore_id, user_id, week_start, completion_date) ==
    LET res == mark_chore_complete_result(chore_id, user_id, week_start,
                                          completion_date)
    IN
    /\ inflight[w].pc = "idle"
    /\ inflight' = [inflight EXCEPT ![w] =
            [pc |-> IF res = "Created" THEN "commit" ELSE "done",
             op |-> "mark_chore_complete", res |-> res,
             chore_id |-> chore_id, user_id |-> user_id,
             week_start |-> EffectiveWeekStart(week_start)]]
    /\ UNCHANGED <<users, chores, completions,
                   nextUserId, nextChoreId, nextCompletionId, now, last>>

\* db.add(db_completion); db.commit(): the table has no unique constraint
mark_chore_complete_commit(w) ==
    /\ inflight[w].pc = "commit"
    /\ inflight[w].op = "mark_chore_complete"
    /\ nextCompletionId <= MaxCompletionId
    /\ completions' = completions \cup
            {NewCompletion(inflight[w].chore_id, inflight[w].user_id,
                           inflight[w].week_start)}
    /\ nextCompletionId' = nextCompletionId + 1
    /\ inflight' = [inflight EXCEPT ![w].pc = "done"]
    /\ UNCHANGED <<users, chores, nextUserId, nextChoreId, now, last>>

\* create_user up to its last query; passed: no query found a row
create_user_check(w, name, email, is_admin, is_active) ==
    LET res == create_user_result(name, email) IN
    /\ inflight[w].pc = "idle"
    /\ inflight' = [inflight EXCEPT ![w] =
            [pc |-> IF res = "Created" THEN "commit" ELSE "done",
             op |-> "create_user", res |-> res, passed |-> res = "Created",
             name |-> name, email |-> email,
             is_admin |-> is_admin, is_active |-> is_active]]
    /\ UNCHANGED <<users, chores, completions,
                   nextUserId, nextChoreId, nextCompletionId, now, last>>

\* unique=True of users.name and of users.email (NULLs are distinct)
UniqueViolation(name, email) ==
    NameTaken(name) \/ (email # NoEmail /\ EmailTaken(email))

\* db.add(db_user); db.commit(): the insert draws an id and fails with
\* IntegrityError on a unique constraint; nothing catches the error, and
\* the request is answered 500
create_user_commit(w) ==
    /\ inflight[w].pc = "commit"
    /\ inflight[w].op = "create_user"
    /\ nextUserId <= MaxUserId
    /\ nextUserId' = nextUserId + 1
    /\ IF UniqueViolation(inflight[w].name, inflight[w].email)
          THEN /\ UNCHANGED users
               /\ inflight' = [inflight EXCEPT ![w].pc = "done",
                                               ![w].res = "ServerError"]
          ELSE /\ users' = users \cup
                    {[id |-> nextUserId, name |-> inflight[w].name,
                      email |-> inflight[w].email,
                      is_admin |-> inflight[w].is_admin,
                      is_active |-> inflight[w].is_active]}
               /\ inflight' = [inflight EXCEPT ![w].pc = "done"]
    /\ UNCHANGED <<chores, completions, nextChoreId, nextCompletionId,
                   now, last>>

\* delete_user up to the guard against removing the last admin: the lookup
\* of the user and the count of the admins
delete_user_check(w, user_id) ==
    LET res == delete_user_result(user_id) IN
    /\ inflight[w].pc = "idle"
    /\ inflight' = [inflight EXCEPT ![w] =
            [pc |-> IF res = "NoContent" THEN "commit" ELSE "done",
             op |-> "delete_user", res |-> res, user_id |-> user_id,
             is_admin |-> \E u \in users : u.id = user_id /\ u.is_admin,
             admin_count |-> admin_count]]
    /\ UNCHANGED <<users, chores, completions,
                   nextUserId, nextChoreId, nextCompletionId, now, last>>

\* db.delete(db_user); db.commit(): the row goes with its chores and
\* completions; nothing looks at the admins again.  A row that is gone by
\* now fails the DELETE of the session, and the request is answered 500
delete_user_commit(w) ==
    /\ inflight[w].pc = "commit"
    /\ inflight[w].op = "delete_user"
    /\ IF inflight[w].user_id \in UserIds
          THEN /\ users' = {u \in users : u.id # inflight[w].user_id}
               /\ chores' = chores \ CascadeChores(inflight[w].user_id)
               /\ completions' =
                      completions \ CascadeCompletions(inflight[w].user_id)
               /\ inflight' = [inflight EXCEPT ![w].pc = "done"]
          ELSE /\ UNCHANGED <<users, chores, completions>>
               /\ inflight' = [inflight EXCEPT ![w].pc = "done",
                                               ![w].res = "ServerError"]
    /\ UNCHANGED <<nextUserId, nextChoreId, nextCompletionId, now, last>>

(***************************************************************************)
(* The clock                                                               *)
(***************************************************************************)
Tick ==
    /\ DateOf(now + 1) <= MaxDay
    /\ now' = now + 1
    /\ UNCHANGED <<users, chores, completions,
                   nextUserId, nextChoreId, nextCompletionId, last, inflight>>

Init ==
    /\ users = {}
    /\ chores = {}
    /\ completions = {}
    /\ nextUserId = 1
    /\ nextChoreId = 1
    /\ nextCompletionId = 1
    /\ now = StartDay * TicksPerDay
    /\ last = [op |-> "none", res |-> "none"]
    /\ inflight = [w \in Workers |-> Idle]

(***************************************************************************)
(* The requests of the model.  Ids run over every id the sequences can     *)
(* give; a field of an update is "unset" (None, NoEmail) or a new value;   *)
(* week_start is absent or a Monday; a completion_date is absent or a day  *)
(* from yesterday to tomorrow; completed_at of an update is a time after   *)
(* the end of the clock.                                                   *)
(***************************************************************************)
UserIdArgs == 1..MaxUserId
ChoreIdArgs == 1..MaxChoreId
CompletionIdArgs == 1..MaxCompletionId
Flags == {"unset", "true", "false"}
Mondays == {0, 7}
Days == (StartDay - 1)..(MaxDay + 1)
NearDays == {Today - 1, Today, Today + 1}
Later == (MaxDay + 1) * TicksPerDay

(***************************************************************************)
(* SpecUsers: the user service alone, with every field of its requests.    *)
(***************************************************************************)
NextUsers ==
    \/ \E name \in UserNames, email \in Emails \cup {NoEmail},
          is_admin \in BOOLEAN, is_active \in BOOLEAN :
            create_user(name, email, is_admin, is_active)
    \/ \E user_id \in UserIdArgs, name \in UserNames \cup {"unset"},
          email \in Emails \cup {NoEmail, "unset"},
          is_admin \in Flags, is_active \in Flags :
            update_user(user_id, name, email, is_admin, is_active)
    \/ \E user_id \in UserIdArgs : delete_user(user_id)

SpecUsers == Init /\ [][NextUsers]_vars

(***************************************************************************)
(* Spec: all three services.                                               *)
(***************************************************************************)
Next ==
    \/ create_user("Ann", NoEmail, TRUE, TRUE)
    \/ \E user_id \in UserIdArgs : delete_user(user_id)
    \/ \E frequency \in {"weekly", "twice_weekly"} :
            create_chore("Dishes", frequency, None, TRUE, FALSE)
    \/ \E chore_id \in ChoreIdArgs :
            update_chore(chore_id, "monthly", None, "unset", "unset")
    \/ \E chore_id \in ChoreIdArgs : delete_chore(chore_id)
    \/ \E user_id \in UserIdArgs, completion_date \in NearDays :
            create_adhoc_chore("Dishes", user_id, completion_date, 0)
    \/ \E chore_id \in ChoreIdArgs, user_id \in UserIdArgs,
          week_start \in {None, 7}, completion_date \in NearDays \cup {None} :
            mark_chore_complete(chore_id, user_id, week_start, completion_date)
    \/ \E completion_id \in CompletionIdArgs, completed_at \in {None, Later},
          week_start \in {None, 0} :
            update_completion(completion_id, None, completed_at, week_start)
    \/ \E completion_id \in CompletionIdArgs : delete_completion(completion_id)
    \/ Tick

Spec == Init /\ [][Next]_vars

(***************************************************************************)
(* SpecCascade: users with their chores and completions, for delete_user.  *)
(* Nothing but delete_user removes a row here.                             *)
(***************************************************************************)
NextCascade ==
    \/ \E name \in UserNames, is_admin \in BOOLEAN :
            create_user(name, NoEmail, is_admin, TRUE)
    \/ \E assigned_user_id \in {None, 1} :
            create_chore("Dishes", "weekly", assigned_user_id, TRUE, FALSE)
    \/ \E chore_id \in ChoreIdArgs, user_id \in UserIdArgs :
            mark_chore_complete(chore_id, user_id, None, None)
    \/ \E user_id \in UserIdArgs : delete_user(user_id)

SpecCascade == Init /\ [][NextCascade]_vars

\* the requests that carry a completion date, over a store of users and chores
NextDated ==
    \/ create_user("Ann", NoEmail, TRUE, TRUE)
    \/ create_chore("Dishes", "weekly", None, TRUE, FALSE)
    \/ \E user_id \in UserIdArgs, completion_date \in NearDays :
            create_adhoc_chore("Dishes", user_id, completion_date, 0)
    \/ \E chore_id \in ChoreIdArgs, completion_date \in NearDays \cup {None} :
            mark_chore_complete(chore_id, 1, None, completion_date)
    \/ Tick

SpecDated == Init /\ [][NextDated]_vars

\* the partial updates of users: the flags a request of SpecUpdate carries
AdminFlags == {"unset", "true"}
ActiveFlags == {"unset", "false"}

\* create_user and update_user, over every name and email of the model
NextUpdate ==
    \/ \E name \in UserNames, email \in Emails \cup {NoEmail} :
            create_user(name, email, FALSE, TRUE)
    \/ \E user_id \in UserIdArgs, name \in UserNames \cup {"unset"},
          email \in Emails \cup {NoEmail, "unset"},
          is_admin \in AdminFlags, is_active \in ActiveFlags :
            update_user(user_id, name, email, is_admin, is_active)

SpecUpdate == Init /\ [][NextUpdate]_vars

\* names of adhoc chores: two that differ in letter case only
AdhocNames == {"Dishes", "dishes"}

\* create_adhoc_chore alone, over users and a recurring chore of the same name
NextAdhoc ==
    \/ create_user("Ann", NoEmail, TRUE, TRUE)
    \/ create_chore("Dishes", "weekly", None, TRUE, FALSE)
    \/ \E name \in AdhocNames, user_id \in UserIdArgs,
          completion_date \in NearDays :
            create_adhoc_chore(name, user_id, completion_date, 0)
    \/ Tick

SpecAdhoc == Init /\ [][NextAdhoc]_vars

\* SpecRace: two requests side by side at one moment of the clock, over a
\* user and a weekly chore stored before
NextRace ==
    \/ create_user("Ann", NoEmail, TRUE, TRUE)
    \/ create_chore("Dishes", "weekly", None, TRUE, FALSE)
    \/ \E w \in Workers, chore_id \in ChoreIdArgs, user_id \in UserIdArgs,
          week_start \in {None, 0} :
            mark_chore_complete_check(w, chore_id, user_id, week_start, Today)
    \/ \E w \in Workers : mark_chore_complete_commit(w)
    \/ \E w \in Workers, name \in UserNames, email \in Emails \cup {NoEmail} :
            create_user_check(w, name, email, FALSE, TRUE)
    \/ \E w \in Workers : create_user_commit(w)

SpecRace == Init /\ [][NextRace]_vars

\* the chores of SpecWeekly: <<name, frequency, assigned_user_id, is_active,
\* is_adhoc>>; by name "bins" comes first, by frequency "Car"
WeeklyChores ==
    {<<"Car", "daily", None, TRUE, FALSE>>,
     <<"bins", "weekly", 1, TRUE, FALSE>>,
     <<"car", "monthly", None, FALSE, FALSE>>,
     <<"Dishes", "weekly", None, TRUE, TRUE>>}

\* the views of SpecWeekly: <<week_start, user_id, frequency>>, with each
\* filter absent and present, and a frequency that is none
WeeklyArgs ==
    {<<None, None, NoFrequency>>,
     <<7, None, NoFrequency>>,
     <<None, 1, NoFrequency>>,
     <<None, None, "daily">>,
     <<7, 1, "daily">>,
     <<None, None, "yearly">>}

\* the last request was a view
Viewed == last.op = "get_weekly_chores"

\* SpecWeekly: the weekly view over chores of every kind and completions of
\* two weeks.  A view ends a run: it changes nothing in the store, so every
\* store is reached, and every view of every store.
NextWeekly ==
    \/ ~Viewed /\ create_user("Ann", NoEmail, TRUE, TRUE)
    \/ ~Viewed /\ \E c \in WeeklyChores :
                      create_chore(c[1], c[2], c[3], c[4], c[5])
    \/ ~Viewed /\ create_adhoc_chore("Dishes", 1, Today, 0)
    \/ ~Viewed /\ \E chore_id \in ChoreIdArgs, week_start \in Mondays :
                      mark_chore_complete(chore_id, 1, week_start, None)
    \/ ~Viewed /\ \E q \in WeeklyArgs : get_weekly_chores(q[1], q[2], q[3])

SpecWeekly == Init /\ [][NextWeekly]_vars

(***************************************************************************)
(* SpecMark: marking and unmarking, for one user and one weekly chore.      *)
(***************************************************************************)
\* the ids of the requests of SpecMark: the one that gets stored and one
\* that never is
MarkIds == {1, 2}

NextMark ==
    \/ users = {} /\ create_user("Ann", NoEmail, TRUE, TRUE)
    \/ chores = {} /\ create_chore("Dishes", "weekly", None, TRUE, FALSE)
    \/ \E chore_id \in MarkIds, user_id \in MarkIds,
          week_start \in Mondays \cup {None},
          completion_date \in NearDays \cup {None} :
            mark_chore_complete(chore_id, user_id, week_start, completion_date)
    \/ \E completion_id \in CompletionIdArgs : delete_completion(completion_id)
    \/ Tick

SpecMark == Init /\ [][NextMark]_vars

(***************************************************************************)
(* SpecStats: the statistics of a store.  A run starts with a store of one  *)
(* user, some chores, the first of them active and the first assigned to   *)
(* the user, and some completions of chore 1, the first of them in the     *)
(* current week and the others in the week before.                         *)
(***************************************************************************)
StatsStore(n_chores, n_active, n_completions, n_this_week) ==
    /\ users = {[id |-> 1, name |-> "Ann", email |-> NoEmail,
                 is_admin |-> TRUE, is_active |-> TRUE]}
    /\ chores = {[id |-> i, name |-> "Dishes", frequency |-> "twice_weekly",
                  assigned_user_id |-> IF i = 1 THEN 1 ELSE None,
                  is_active |-> i <= n_active, is_adhoc |-> FALSE] :
                 i \in 1..n_chores}
    /\ completions =
          {[id |-> i, chore_id |-> 1, user_id |-> 1,
            completed_at |-> StartDay * TicksPerDay,
            week_start |-> IF i <= n_this_week
                           THEN get_week_start(StartDay)
                           ELSE get_week_start(StartDay) - 7] :
           i \in 1..n_completions}
    /\ nextUserId = 2
    /\ nextChoreId = n_chores + 1
    /\ nextCompletionId = n_completions + 1

InitStats ==
    /\ \E n_chores \in 0..MaxStatChores,
          n_completions \in 0..MaxStatCompletions :
        \E n_active \in 0..n_chores, n_this_week \in 0..n_completions :
            /\ n_completions > 0 => n_chores > 0
            /\ StatsStore(n_chores, n_active, n_completions, n_this_week)
    /\ now = StartDay * TicksPerDay
    /\ last = [op |-> "none", res |-> "none"]
    /\ inflight = [w \in Workers |-> Idle]

NextStats ==
    \/ last.op = "none" /\ \E user_id \in {None, 1, 2} :
                                get_completion_stats(user_id)
    \/ last.op = "none" /\ get_dashboard_stats

SpecStats == InitStats /\ [][NextStats]_vars

(***************************************************************************)
(* SpecIntegrity: every request that stores or removes a reference to a    *)
(* user or a chore.                                                        *)
(***************************************************************************)
NextIntegrity ==
    \/ \E name \in UserNames : create_user(name, NoEmail, name = "Ann", TRUE)
    \/ \E user_id \in UserIdArgs : delete_user(user_id)
    \/ \E assigned_user_id \in UserIdArgs \cup {None} :
            create_chore("Dishes", "weekly", assigned_user_id, TRUE, FALSE)
    \/ \E chore_id \in ChoreIdArgs, assigned_user_id \in UserIdArgs :
            update_chore(chore_id, "unset", assigned_user_id, "unset", "unset")
    \/ \E chore_id \in ChoreIdArgs : delete_chore(chore_id)
    \/ \E user_id \in UserIdArgs :
            create_adhoc_chore("Dishes", user_id, Today, 0)
    \/ \E chore_id \in ChoreIdArgs, user_id \in UserIdArgs :
            mark_chore_complete(chore_id, user_id, None, None)
    \/ \E completion_id \in CompletionIdArgs, user_id \in UserIdArgs :
            update_completion(completion_id, user_id, None, None)
    \/ \E completion_id \in CompletionIdArgs : delete_completion(completion_id)

SpecIntegrity == Init /\ [][NextIntegrity]_vars

(***************************************************************************)
(* SpecDeleteRace: delete_user requests side by side, over admins and      *)
(* other users.                                                            *)
(***************************************************************************)
NextDeleteRace ==
    \/ \E name \in UserNames, is_admin \in BOOLEAN :
            create_user(name, NoEmail, is_admin, TRUE)
    \/ \E w \in Workers, user_id \in UserIdArgs : delete_user_check(w, user_id)
    \/ \E w \in Workers : delete_user_commit(w)

SpecDeleteRace == Init /\ [][NextDeleteRace]_vars

(***************************************************************************)
(* SpecDates: the week helpers on their own.  A run starts with two dates   *)
(* and calls one helper on them.                                           *)
(***************************************************************************)
DateArgs == 0..MaxDate

InitDates ==
    /\ users = {}
    /\ chores = {}
    /\ completions = {}
    /\ nextUserId = 1
    /\ nextChoreId = 1
    /\ nextCompletionId = 1
    /\ now = StartDay * TicksPerDay
    /\ inflight = [w \in Workers |-> Idle]
    /\ \E date1 \in DateArgs, date2 \in DateArgs :
          last = [op |-> "none", res |-> "none",
                  date1 |-> date1, date2 |-> date2]

\* get_week_start(date1), and get_week_start of what it returned
call_get_week_start ==
    /\ last.op = "none"
    /\ last' = [op |-> "get_week_start", res |-> "OK",
                target_date |-> last.date1,
                week_start |-> get_week_start(last.date1),
                again |-> get_week_start(get_week_start(last.date1))]
    /\ UNCHANGED <<users, chores, completions,
                   nextUserId, nextChoreId, nextCompletionId, now, inflight>>

call_is_same_week ==
    /\ last.op = "none"
    /\ last' = [op |-> "is_same_week", res |-> "OK",
                date1 |-> last.date1, date2 |-> last.date2,
                same |-> is_same_week(last.date1, last.date2)]
    /\ UNCHANGED <<users, chores, completions,
                   nextUserId, nextChoreId, nextCompletionId, now, inflight>>

NextDates ==
    \/ call_get_week_start
    \/ call_is_same_week

SpecDates == InitDates /\ [][NextDates]_vars

(***************************************************************************)
(* Properties.  A property of a handler is stated over the steps that are  *)
(* a run of the handler, for every request.                                *)
(***************************************************************************)
\* the step is a run of the handler op (the clock stands still in a handler)
Ran(op) == now' = now /\ last'.op = op

\* a chore that is to have one completion a week
OneAWeek(ch) == ch.frequency \in {"weekly", "daily", "monthly"} /\ ~ch.is_adhoc

\* a chore that is to have one completion a day
OneADay(ch) == ch.frequency = "twice_weekly" \/ ch.is_adhoc

NotFuture(completion_date) == completion_date = None \/ completion_date <= Today

InWeek(chore_id, week_start) ==
    {c \in completions : c.chore_id = chore_id /\ c.week_start = week_start}

\* C1: mark_chore_complete on a weekly, daily or monthly chore (an existing
\* user, a date that is not in the future or no date) is answered Conflict,
\* status 400, and adds no completion whenever a completion of the same
\* (chore_id, week_start) is stored.
C1_DuplicateInWeekRejected ==
    [][Ran("mark_chore_complete") =>
       \A chore_id \in ChoreIdArgs, user_id \in UserIdArgs,
          week_start \in Mondays \cup {None},
          completion_date \in Days \cup {None} :
        (/\ chore_id \in ChoreIds
         /\ OneAWeek(ChoreOf(chore_id))
         /\ user_id \in UserIds
         /\ NotFuture(completion_date)
         /\ InWeek(chore_id, EffectiveWeekStart(week_start)) # {}
         /\ mark_chore_complete(chore_id, user_id, week_start, completion_date))
        => (/\ last'.res = "Conflict"
            /\ StatusCode(last'.res) = 400
            /\ completions' = completions)]_vars

\* C2: every weekly, daily or monthly chore has at most one completion for
\* each (chore, week_start).
C2_OneCompletionPerWeek ==
    \A ch \in chores : OneAWeek(ch) =>
        \A c1, c2 \in completions :
            (/\ c1.chore_id = ch.id
             /\ c2.chore_id = ch.id
             /\ c1.week_start = c2.week_start) => c1 = c2

\* C3: after a successful mark_chore_complete of a twice_weekly chore with
\* completion date d1, the next mark_chore_complete of the same chore and
\* week_start with another completion date d2 of that week (not in the
\* future) succeeds, and the (chore, week_start) then has two completions.
C3_TwoDaysOfOneWeek ==
    [][(/\ last.op = "mark_chore_complete"
        /\ last.res = "Created"
        /\ last.completion_date # None
        /\ Ran("mark_chore_complete")) =>
       \A chore_id \in ChoreIdArgs, user_id \in UserIdArgs,
          week_start \in Mondays \cup {None}, d2 \in Days :
        (/\ chore_id \in ChoreIds
         /\ ChoreOf(chore_id).frequency = "twice_weekly"
         /\ user_id \in UserIds
         /\ d2 # last.completion_date
         /\ d2 <= Today
         /\ LET first == CompletionOf(nextCompletionId - 1)
                ws    == EffectiveWeekStart(week_start)
            IN /\ first.chore_id = chore_id
               /\ first.week_start = ws
               /\ get_week_start(last.completion_date) = ws
               /\ get_week_start(d2) = ws
         /\ mark_chore_complete(chore_id, user_id, week_start, d2))
        => (/\ last'.res = "Created"
            /\ Cardinality({c \in completions' :
                  /\ c.chore_id = chore_id
                  /\ c.week_start = EffectiveWeekStart(week_start)}) >= 2)]_vars

\* C4: a twice_weekly or adhoc chore has at most one completion on each
\* calendar day.
C4_OneCompletionPerDay ==
    \A ch \in chores : OneADay(ch) =>
        \A c1, c2 \in completions :
            (/\ c1.chore_id = ch.id
             /\ c2.chore_id = ch.id
             /\ DateOf(c1.completed_at) = DateOf(c2.completed_at)) => c1 = c2

\* a run of mark_chore_complete with a completion date after today
FutureMark(chore_id, user_id, week_start, d) ==
    /\ d > Today
    /\ last'.completion_date = d
    /\ mark_chore_complete(chore_id, user_id, week_start, d)

\* a run of create_adhoc_chore with a completion date after today
FutureAdhoc(name, user_id, d, week_start) ==
    /\ d > Today
    /\ create_adhoc_chore(name, user_id, d, week_start)

\* C5 as stated: every mark_chore_complete and create_adhoc_chore with a
\* completion_date after today is answered InvalidArgument and leaves the
\* chores and the completions as they were.
C5_FutureAlwaysInvalid ==
    [][/\ Ran("mark_chore_complete") =>
            \A d \in Days, chore_id \in ChoreIdArgs, user_id \in UserIdArgs,
               week_start \in Mondays \cup {None} :
                FutureMark(chore_id, user_id, week_start, d)
                => /\ last'.res = "InvalidArgument"
                   /\ chores' = chores
                   /\ completions' = completions
       /\ Ran("create_adhoc_chore") =>
            \A d \in Days, name \in ChoreNames, user_id \in UserIdArgs,
               week_start \in Mondays :
                FutureAdhoc(name, user_id, d, week_start)
                => /\ last'.res = "InvalidArgument"
                   /\ chores' = chores
                   /\ completions' = completions]_vars

\* C5: a mark_chore_complete or create_adhoc_chore with a completion_date
\* after today fails and leaves the chores and the completions as they were;
\* the answer is InvalidArgument, status 400, when the ids of the request
\* exist (chore and user for mark_chore_complete, user for
\* create_adhoc_chore) and NotFound, status 404, otherwise.
C5_FutureRejected ==
    [][/\ Ran("mark_chore_complete") =>
            \A d \in {x \in Days : x = last'.completion_date} :
            \A chore_id \in ChoreIdArgs, user_id \in UserIdArgs,
               week_start \in Mondays \cup {None} :
                FutureMark(chore_id, user_id, week_start, d)
                => /\ chores' = chores
                   /\ completions' = completions
                   /\ IF chore_id \in ChoreIds /\ user_id \in UserIds
                      THEN /\ last'.res = "InvalidArgument"
                           /\ StatusCode(last'.res) = 400
                      ELSE /\ last'.res = "NotFound"
                           /\ StatusCode(last'.res) = 404
       /\ Ran("create_adhoc_chore") =>
            \A d \in {x \in Days : x > Today} :
            \A name \in ChoreNames, user_id \in UserIdArgs,
               week_start \in Mondays :
                FutureAdhoc(name, user_id, d, week_start)
                => /\ chores' = chores
                   /\ completions' = completions
                   /\ IF user_id \in UserIds
                      THEN /\ last'.res = "InvalidArgument"
                           /\ StatusCode(last'.res) = 400
                      ELSE /\ last'.res = "NotFound"
                           /\ StatusCode(last'.res) = 404]_vars

\* a create_adhoc_chore that had flushed a new chore (no adhoc chore of the
\* name is stored, a sequence value is spent) was refused for its date
C5_Witness ==
    /\ last.op = "create_adhoc_chore"
    /\ last.res = "InvalidArgument"
    /\ AdhocNamed("Dishes") = {}
    /\ nextChoreId > 1
    /\ completions # {}

\* C6: no stored completion has a completed_at later than the current time.
C6_NoFutureCompletion ==
    \A c \in completions : c.completed_at <= now

HasActiveAdmin == \E u \in users : u.is_admin /\ u.is_active

\* C7: once an active admin exists, every later state has an active admin.
C7_ActiveAdminRemains ==
    [][HasActiveAdmin => HasActiveAdmin']_vars

\* C8: delete_user of the only admin is answered InvariantViolation, status
\* 400, and delete_user of an unknown id NotFound; both leave users, chores
\* and completions as they were.
C8_LastAdminKept ==
    [][Ran("delete_user") => \A user_id \in UserIdArgs : delete_user(user_id) =>
        /\ user_id \notin UserIds
              => /\ last'.res = "NotFound"
                 /\ UNCHANGED <<users, chores, completions>>
        /\ (/\ \E u \in users : u.id = user_id /\ u.is_admin
            /\ Cardinality({u \in users : u.is_admin}) = 1)
              => /\ last'.res = "InvariantViolation"
                 /\ StatusCode(last'.res) = 400
                 /\ UNCHANGED <<users, chores, completions>>]_vars

\* the only admin was not deleted, with chores and completions in the store
C8_Witness ==
    /\ last.op = "delete_user"
    /\ last.res = "InvariantViolation"
    /\ Cardinality({u \in users : u.is_admin}) = 1
    /\ Cardinality(users) = 2
    /\ chores # {}
    /\ completions # {}

\* C9: delete_user of a non-admin, or of an admin while two admins exist,
\* succeeds; the user, the chores assigned to the user and the completions
\* made by the user or belonging to those chores are gone, and every other
\* user, chore and completion is unchanged.
C9_DeleteCascades ==
    [][Ran("delete_user") => \A id \in UserIdArgs :
        (/\ delete_user(id)
         /\ \E u \in users :
              /\ u.id = id
              /\ ~u.is_admin \/ Cardinality({a \in users : a.is_admin}) >= 2)
        => LET gone == {ch.id : ch \in {c \in chores : c.assigned_user_id = id}}
           IN /\ last'.res = "NoContent"
              /\ users' \subseteq users
              /\ chores' \subseteq chores
              /\ completions' \subseteq completions
              /\ \A u \in users : u \in users' <=> u.id # id
              /\ \A c \in chores : c \in chores' <=> c.assigned_user_id # id
              /\ \A c \in completions :
                    c \in completions'
                        <=> (c.user_id # id /\ c.chore_id \notin gone)]_vars

\* an admin was deleted while another user stays, and the chore and the
\* completions made before are gone with it (in SpecCascade only delete_user
\* removes rows)
C9_Witness ==
    /\ last.op = "delete_user"
    /\ last.res = "NoContent"
    /\ last.is_admin
    /\ users # {}
    /\ nextChoreId > 1 /\ chores = {}
    /\ nextCompletionId > 1 /\ completions = {}

\* C10: create_user is answered Conflict, status 400, and leaves the users
\* as they were when a user has exactly the name of the request or the
\* (non-null) email of the request; a name that differs from the name of a
\* user only in letter case is accepted.
C10_CreateUserConflict ==
    [][Ran("create_user") =>
       \A name \in UserNames, email \in Emails \cup {NoEmail},
          is_admin \in BOOLEAN, is_active \in BOOLEAN :
        create_user(name, email, is_admin, is_active) =>
            LET sameName  == \E u \in users : u.name = name
                sameEmail == /\ email # NoEmail
                             /\ \E u \in users : u.email = email
                caseOnly  == \E u \in users : /\ u.name # name
                                              /\ Lower(u.name) = Lower(name)
            IN /\ (sameName \/ sameEmail)
                     => /\ last'.res = "Conflict"
                        /\ StatusCode(last'.res) = 400
                        /\ users' = users
               /\ (caseOnly /\ ~sameName /\ ~sameEmail)
                     => /\ last'.res = "Created"
                        /\ \E u \in users' \ users : u.name = name]_vars

\* the user just created has the name of an older user in another letter case
C10_Witness ==
    /\ last.op = "create_user"
    /\ last.res = "Created"
    /\ \E u1, u2 \in users : /\ u2.id = nextUserId - 1
                             /\ u1.id < u2.id
                             /\ u1.name # u2.name
                             /\ Lower(u1.name) = Lower(u2.name)

\* C11: no two distinct users have the same name, and no two distinct users
\* have the same non-null email, in every state create_user, update_user and
\* delete_user can reach.
C11_UniqueNameAndEmail ==
    \A u1, u2 \in users :
        u1.id # u2.id =>
            /\ u1.name # u2.name
            /\ u1.email # NoEmail => u1.email # u2.email

\* two users are stored, one with an email, and an update_user that would
\* have given the other the same name or email was answered Conflict
C11_Witness ==
    /\ last.op = "update_user"
    /\ last.res = "Conflict"
    /\ Cardinality(users) = 2
    /\ \E u \in users : u.email # NoEmail

\* C12: update_user is answered NotFound for an absent id, and Conflict when
\* the new name or the new email is that of another user, both leaving the
\* users as they were; otherwise (the user's own name or email included) it
\* succeeds and changes only the fields the request carries.
C12_UpdateUser ==
    [][Ran("update_user") =>
       \A user_id \in UserIdArgs, name \in UserNames \cup {"unset"},
          email \in Emails \cup {NoEmail, "unset"},
          is_admin \in AdminFlags, is_active \in ActiveFlags :
        update_user(user_id, name, email, is_admin, is_active) =>
          IF user_id \notin UserIds
          THEN /\ last'.res = "NotFound"
               /\ StatusCode(last'.res) = 404
               /\ users' = users
          ELSE LET u == CHOOSE x \in users : x.id = user_id
                   others == users \ {u}
                   clash ==
                     \/ name # "unset" /\ \E o \in others : o.name = name
                     \/ /\ email \notin {"unset", NoEmail}
                        /\ \E o \in others : o.email = email
               IN IF clash
                  THEN /\ last'.res = "Conflict"
                       /\ StatusCode(last'.res) = 400
                       /\ users' = users
                  ELSE /\ last'.res = "OK"
                       /\ users' = others \cup
                            {[id |-> u.id,
                              name |-> IF name = "unset" THEN u.name ELSE name,
                              email |-> IF email = "unset" THEN u.email
                                        ELSE email,
                              is_admin |-> IF is_admin = "unset"
                                           THEN u.is_admin
                                           ELSE is_admin = "true",
                              is_active |-> IF is_active = "unset"
                                            THEN u.is_active
                                            ELSE is_active = "true"]}]_vars

\* an update_user that named the user's own current name succeeded while
\* another user is stored
C12_Witness ==
    /\ last.op = "update_user"
    /\ last.res = "OK"
    /\ last.own_name
    /\ Cardinality(users) = 2

\* the adhoc chores of exactly this name
AdhocOfName(name) == {c \in chores : c.is_adhoc /\ c.name = name}

\* C13: with create_adhoc_chore as the only source of adhoc chores, every
\* name has at most one adhoc chore, and a successful create_adhoc_chore
\* whose name is that of an adhoc chore adds no chore and stores one
\* completion, of that chore.
C13_AdhocChoreReused ==
    [][/\ \A name \in AdhocNames : Cardinality(AdhocOfName(name)') <= 1
       /\ Ran("create_adhoc_chore") =>
            \A name \in AdhocNames, user_id \in UserIdArgs,
               completion_date \in Days, week_start \in Mondays :
              (/\ AdhocOfName(name) # {}
               /\ last'.res = "Created"
               /\ create_adhoc_chore(name, user_id, completion_date,
                                     week_start))
              => /\ chores' = chores
                 /\ Cardinality(completions' \ completions) = 1
                 /\ \A c \in completions' \ completions :
                        c.chore_id \in {ch.id : ch \in AdhocOfName(name)}]_vars

\* a second create_adhoc_chore of a name succeeded: one adhoc chore has two
\* completions, beside an adhoc or recurring chore of a like name
C13_Witness ==
    /\ last.op = "create_adhoc_chore"
    /\ last.res = "Created"
    /\ Cardinality(chores) >= 2
    /\ \E c1, c2 \in completions :
          /\ c1.id # c2.id
          /\ c1.chore_id = c2.chore_id
          /\ c1.chore_id \in ChoreIds
          /\ ChoreOf(c1.chore_id).is_adhoc

\* C14: a create_adhoc_chore that fails leaves the chores as they were, also
\* when it had flushed a new adhoc chore before it failed.
C14_AdhocAtomic ==
    [][Ran("create_adhoc_chore") =>
        \A name \in AdhocNames, user_id \in UserIdArgs,
           completion_date \in Days, week_start \in Mondays :
          (/\ last'.res # "Created"
           /\ create_adhoc_chore(name, user_id, completion_date, week_start))
          => chores' = chores]_vars

\* a create_adhoc_chore failed for its date after the flush of a new chore:
\* a value of the chore sequence belongs to no chore (no chore is ever
\* deleted in SpecAdhoc)
C14_Witness ==
    /\ last.op = "create_adhoc_chore"
    /\ last.res = "InvalidArgument"
    /\ nextChoreId - 1 > Cardinality(chores)

\* the requests of two workers that have been answered
Answered(w1, w2, op) ==
    /\ w1 # w2
    /\ inflight[w1].pc = "done" /\ inflight[w1].op = op
    /\ inflight[w2].pc = "done" /\ inflight[w2].op = op

\* C15: of two mark_chore_complete requests for one weekly chore and one
\* week_start that run side by side, at most one succeeds, and at most one
\* completion of the (chore, week_start) is stored.
C15_RaceOneCompletion ==
    \A w1, w2 \in Workers :
        (/\ Answered(w1, w2, "mark_chore_complete")
         /\ inflight[w1].chore_id = inflight[w2].chore_id
         /\ inflight[w1].week_start = inflight[w2].week_start
         /\ inflight[w1].chore_id \in ChoreIds
         /\ OneAWeek(ChoreOf(inflight[w1].chore_id)))
        => /\ ~(inflight[w1].res = "Created" /\ inflight[w2].res = "Created")
           /\ Cardinality(InWeek(inflight[w1].chore_id,
                                 inflight[w1].week_start)) <= 1

\* C16: of two create_user requests with one name that both passed the
\* check of the name before either inserted, at most one succeeds, at most
\* one user of the name is stored, and the request that does not succeed is
\* answered Conflict.
C16_RaceOneUser ==
    \A w1, w2 \in Workers :
        (/\ Answered(w1, w2, "create_user")
         /\ inflight[w1].name = inflight[w2].name
         /\ inflight[w1].passed /\ inflight[w2].passed)
        => /\ Cardinality({u \in users : u.name = inflight[w1].name}) <= 1
           /\ ~(inflight[w1].res = "Created" /\ inflight[w2].res = "Created")
           /\ inflight[w1].res \in {"Created", "Conflict"}
           /\ inflight[w2].res \in {"Created", "Conflict"}

\* the last request was a weekly view that was answered
ViewAnswered == last.op = "get_weekly_chores" /\ last.res = "OK"

\* C17: the chores of a weekly view are in ascending order of their names
\* with letter case ignored, whatever their frequencies and whether or not
\* adhoc chores were merged in.
C17_ViewSortedByName ==
    ViewAnswered =>
        \A i, j \in 1..Len(last.chores) :
            i < j => StrKey(Lower(last.chores[i].name))
                        <= StrKey(Lower(last.chores[j].name))

\* a view lists a chore of a later frequency before one of an earlier
\* frequency, and its names are not in the order of the stored letter case
C17_Witness ==
    /\ ViewAnswered
    /\ \E i, j \in 1..Len(last.chores) :
          /\ i < j
          /\ frequency_order(last.chores[i].frequency)
                > frequency_order(last.chores[j].frequency)
          /\ StrKey(last.chores[i].name) > StrKey(last.chores[j].name)

\* C18: in a weekly view total_chores is the number of entries, the
\* completions of an entry are the stored completions of that chore in the
\* week of the view, and completed_chores is the sum of their numbers.
C18_ViewCounts ==
    ViewAnswered =>
        /\ last.total_chores = Len(last.chores)
        /\ \A i \in 1..Len(last.chores) :
              last.chores[i].completions =
                  {c.id : c \in {x \in completions :
                                    /\ x.chore_id = last.chores[i].id
                                    /\ x.week_start = last.week_start}}
        /\ last.completed_chores =
              Cardinality({p \in (1..Len(last.chores)) \X CompletionIds :
                              p[2] \in last.chores[p[1]].completions})

\* a view has an entry with two completions and counts both
C18_Witness ==
    /\ ViewAnswered
    /\ last.completed_chores = 2
    /\ \E i \in 1..Len(last.chores) :
          Cardinality(last.chores[i].completions) = 2

C20_WeekStart ==
    /\ last.op = "get_week_start" =>
          /\ last.week_start % 7 = 0
          /\ last.week_start <= last.target_date
          /\ last.target_date <= last.week_start + 6
          /\ last.again = last.week_start
    /\ last.op = "is_same_week" =>
          /\ (\E m \in DateArgs :
                 /\ m % 7 = 0
                 /\ last.date1 \in m..(m + 6)
                 /\ last.date2 \in m..(m + 6)) => last.same
          /\ (last.date1 % 7 = 0 /\ last.date2 = last.date1 + 7) => ~last.same

\* is_same_week answered for the Monday and the Sunday of one week
C20_Witness ==
    /\ last.op = "is_same_week"
    /\ last.date1 = 7
    /\ last.date2 = 13
    /\ last.same

\* C21: mark_chore_complete for a chore or a user that is not stored is
\* answered NotFound, status 404, and stores nothing; the chore is looked up
\* first, and both before the date and the duplicates are looked at.
C21_MarkNotFound ==
    [][Ran("mark_chore_complete") =>
       \A chore_id \in MarkIds, user_id \in MarkIds,
          week_start \in Mondays \cup {None},
          completion_date \in NearDays \cup {None} :
        (/\ chore_id \notin ChoreIds \/ user_id \notin UserIds
         /\ last'.completion_date = completion_date
         /\ mark_chore_complete(chore_id, user_id, week_start, completion_date))
        => (/\ last'.res = "NotFound"
            /\ StatusCode(last'.res) = 404
            /\ last'.detail = IF chore_id \notin ChoreIds THEN "Chore"
                              ELSE "User"
            /\ completions' = completions
            /\ nextCompletionId' = nextCompletionId)]_vars

\* a request for a chore that is not stored, with a date in the future, was
\* answered NotFound for the chore
C21_Witness ==
    /\ last.op = "mark_chore_complete"
    /\ last.res = "NotFound"
    /\ last.detail = "Chore"
    /\ last.completion_date # None
    /\ last.completion_date > Today
    /\ users # {}

\* C22: delete_completion of a stored id removes that completion and
\* nothing else, no chore and no user; of an id that is not stored it is
\* answered NotFound and changes nothing.  Once a completion is deleted and
\* none is left of its weekly chore and week, the next mark_chore_complete of
\* that chore and week_start is answered Created and stores a completion.
C22_UnmarkThenRemark ==
    [][/\ Ran("delete_completion") =>
            \A completion_id \in CompletionIdArgs :
                delete_completion(completion_id) =>
                    /\ users' = users
                    /\ chores' = chores
                    /\ IF completion_id \in CompletionIds
                          THEN /\ last'.res = "NoContent"
                               /\ completions' = completions \
                                                 {CompletionOf(completion_id)}
                               /\ Cardinality(completions') =
                                      Cardinality(completions) - 1
                          ELSE /\ last'.res = "NotFound"
                               /\ StatusCode(last'.res) = 404
                               /\ completions' = completions
       /\ (/\ Ran("mark_chore_complete")
           /\ last.op = "delete_completion"
           /\ last.res = "NoContent") =>
            \A user_id \in MarkIds, completion_date \in NearDays \cup {None} :
                (/\ user_id \in UserIds
                 /\ NotFuture(completion_date)
                 /\ last.chore_id \in ChoreIds
                 /\ OneAWeek(ChoreOf(last.chore_id))
                 /\ InWeek(last.chore_id, last.week_start) = {}
                 /\ mark_chore_complete(last.chore_id, user_id,
                                        last.week_start, completion_date))
                => (/\ last'.res = "Created"
                    /\ Cardinality(completions') = 1 + Cardinality(completions)
                    /\ \E c \in completions' \ completions :
                          /\ c.chore_id = last.chore_id
                          /\ c.week_start = last.week_start)]_vars

\* two completions were stored, the first was deleted and the chore marked
\* again
C22_Witness ==
    /\ last.op = "mark_chore_complete"
    /\ last.res = "Created"
    /\ nextCompletionId = 3
    /\ \E c \in completions : completions = {c} /\ c.id = 2

\* the rate was reported by one of the two statistics requests
RateReported == last.op \in {"get_completion_stats", "get_dashboard_stats"}

\* the completions of the current week and the active chores behind a
\* reported rate, those of the user when the request names one
RateCompletions ==
    Cardinality({c \in completions :
                    /\ c.week_start = get_week_start(Today)
                    /\ last.user_id = None \/ c.user_id = last.user_id})

RateChores ==
    Cardinality({c \in chores :
                    /\ c.is_active
                    /\ last.user_id = None \/ c.assigned_user_id = last.user_id})

\* C23 as it is stated: the reported completion_rate is the completions of
\* the current week divided by the active chores, times 100, and 0 without
\* active chores.  (A rate is a number of hundredths of a percent.)
C23_RateIsQuotient ==
    (RateReported /\ last.user_id = None) =>
        IF RateChores = 0 THEN last.completion_rate = 0
        ELSE last.completion_rate * RateChores = RateCompletions * 10000

\* C23: the reported completion_rate is the two-decimal number nearest to
\* the completions of the current week divided by the active chores, times
\* 100, and 0 without active chores; a request that names a user counts the
\* completions and the active chores of that user.  1 completion with 4
\* active chores gives 25.
C23_RateIsRoundedQuotient ==
    RateReported =>
        /\ RateChores = 0 => last.completion_rate = 0
        /\ RateChores > 0 =>
              LET d == last.completion_rate * RateChores
                       - RateCompletions * 10000
              IN 2 * d <= RateChores /\ 0 - 2 * d <= RateChores
        /\ (RateChores = 4 /\ RateCompletions = 1) =>
              last.completion_rate = 2500

\* a rate of 33.33 was reported for 1 completion with 3 active chores, while
\* an inactive chore and a completion of the week before are stored
C23_Witness ==
    /\ RateReported
    /\ RateChores = 3
    /\ RateCompletions = 1
    /\ last.completion_rate = 3333
    /\ Cardinality(chores) = 4
    /\ Cardinality(completions) > 1

\* C24: the completion that mark_chore_complete stores for a request with a
\* completion_date that is not in the future has its completed_at on that
\* day; stored for a request without one, it has the current time.
C24_CompletedAtOnGivenDay ==
    [][Ran("mark_chore_complete") =>
       \A chore_id \in MarkIds, user_id \in MarkIds,
          week_start \in Mondays \cup {None},
          completion_date \in NearDays \cup {None} :
        (/\ last'.completion_date = completion_date
         /\ last'.res = "Created"
         /\ mark_chore_complete(chore_id, user_id, week_start, completion_date))
        => \A c \in completions' \ completions :
              IF completion_date = None
                 THEN c.completed_at = now
                 ELSE DateOf(c.completed_at) = completion_date]_vars

\* C25: mark_chore_complete of a weekly chore (an existing user, a date
\* that is not in the future or no date) for a week_start of which the chore
\* has no completion is answered Created and stores the completion, whatever
\* completions the chore has in other weeks and on whatever day they were
\* made.
C25_OtherWeekSucceeds ==
    [][Ran("mark_chore_complete") =>
       \A chore_id \in MarkIds, user_id \in MarkIds,
          week_start \in Mondays \cup {None},
          completion_date \in NearDays \cup {None} :
        (/\ last'.completion_date = completion_date
         /\ chore_id \in ChoreIds
         /\ ChoreOf(chore_id).frequency = "weekly"
         /\ user_id \in UserIds
         /\ NotFuture(completion_date)
         /\ InWeek(chore_id, EffectiveWeekStart(week_start)) = {}
         /\ mark_chore_complete(chore_id, user_id, week_start, completion_date))
        => (/\ last'.res = "Created"
            /\ StatusCode(last'.res) = 201
            /\ Cardinality(InWeek(chore_id,
                                  EffectiveWeekStart(week_start))') = 1
            /\ Cardinality(completions') = 1 + Cardinality(completions))]_vars

\* a request that carried a date stored a second completion of the chore, in
\* another week than the first and on the same real day
C25_Witness ==
    /\ last.op = "mark_chore_complete"
    /\ last.res = "Created"
    /\ last.completion_date # None
    /\ \E c1, c2 \in completions :
          /\ c1.id < c2.id
          /\ c2.id = nextCompletionId - 1
          /\ c1.chore_id = c2.chore_id
          /\ c1.week_start # c2.week_start
          /\ DateOf(c1.completed_at) = DateOf(c2.completed_at)

\* C26: in every state the chore and the user of every completion are
\* stored, and the user a chore is assigned to, if any, is stored.
C26_ReferentialIntegrity ==
    /\ \A c \in completions :
          /\ \E ch \in chores : ch.id = c.chore_id
          /\ \E u \in users : u.id = c.user_id
    /\ \A ch \in chores :
          \/ ch.assigned_user_id = None
          \/ \E u \in users : u.id = ch.assigned_user_id

\* a user was deleted and a chore went with the user, while a chore with
\* its user and a completion are still stored
C26_Witness ==
    /\ last.op = "delete_user"
    /\ last.res = "NoContent"
    /\ nextChoreId - 1 > Cardinality(chores)
    /\ \E ch \in chores : ch.assigned_user_id # None
    /\ completions # {}

\* C27: when two delete_user requests, one for each of the two admins,
\* have both counted two admins before either deleted, an admin is still
\* stored after both are answered.
C27_RaceKeepsAdmin ==
    \A w1, w2 \in Workers :
        (/\ Answered(w1, w2, "delete_user")
         /\ inflight[w1].user_id # inflight[w2].user_id
         /\ inflight[w1].is_admin /\ inflight[w2].is_admin
         /\ inflight[w1].admin_count = 2
         /\ inflight[w2].admin_count = 2)
        => \E u \in users : u.is_admin

====
